---- MODULE Spec2Model ----
(***************************************************************************)
(* A model of PackedData<T> (src/src/lib.rs): a dense vector of slots, an  *)
(* ordered multiset of free indices ("holes") and generation-checked       *)
(* handles (Item).                                                         *)
(*                                                                         *)
(* Indices are 0-based as in the source; the slot of index i is            *)
(* data[i + 1].  A generation is a NonZeroU32.  TLC's integers are 32-bit  *)
(* signed, so a u32 is kept as two 16-bit limbs <<hi, lo>> standing for    *)
(* hi * 65536 + lo; the arithmetic on it is the arithmetic of the source.  *)
(*                                                                         *)
(* A panic unwinds out of the call that raised it; the container it was    *)
(* called on is still there afterwards (std::panic::catch_unwind, a Drop   *)
(* that runs during unwinding, a poisoned Mutex), so a panicking call is   *)
(* an action like any other: it leaves the container as the code had       *)
(* changed it up to the panic.                                             *)
(***************************************************************************)
EXTENDS Integers, Sequences, FiniteSets, TLC

VARIABLES
    data,      \* PackedData.data : Vec<Slot<T>>
    holes,     \* PackedData.holes : OrderedSkipList<usize>, ascending, duplicates kept
    cap,       \* data.capacity()
    last,      \* the last call: its name, its Item, whether it returned, what it returned
    prev,      \* the call before it
    live,      \* history: (handle, value) of every insert not yet undone by a successful remove
    removed,   \* history: handles whose remove succeeded, with the number of times their slot was freed since
    issuedGen, \* history: per index, the generation of the handle last issued for it
    failed,    \* history: some call has panicked
    peak,      \* history: the greatest value len() has had
    ops        \* history: number of calls made

vars == <<data, holes, cap, last, prev, live, removed, issuedGen, failed, peak, ops>>

---------------------------------------------------------------------------
(* Bounds of the model *)

MaxLen == 2

MaxOps == 6

Values == {"a", "b"}

NoValue == "none"

---------------------------------------------------------------------------
(* u32 / NonZeroU32 *)

LimbMax == 65535

U32Max == <<LimbMax, LimbMax>>

U32Zero == <<0, 0>>

Gen1 == <<0, 1>>

U32Less(a, b) ==
    \/ a[1] < b[1]
    \/ a[1] = b[1] /\ a[2] < b[2]

U32Succ(a) ==
    IF a[2] = LimbMax THEN <<a[1] + 1, 0>> ELSE <<a[1], a[2] + 1>>

U32Pred(a) ==
    IF a[2] = 0 THEN <<a[1] - 1, LimbMax>> ELSE <<a[1], a[2] - 1>>

\* u32::checked_add(1): None on overflow
CheckedAdd1(a) ==
    IF a = U32Max THEN [some |-> FALSE, val |-> U32Zero]
    ELSE [some |-> TRUE, val |-> U32Succ(a)]

NextGenerationSame(g) == g

NextGenerationWrapping(g) ==
    IF g = U32Max THEN U32Zero ELSE U32Succ(g)

\* .checked_add(1).unwrap_or(1)
NextGeneration(g) ==
    LET r == CheckedAdd1(g)
    IN  IF r.some THEN r.val ELSE Gen1

\* a saturating count, for the history only
SatSucc(a) == IF a = U32Max THEN U32Max ELSE U32Succ(a)

---------------------------------------------------------------------------
(* Slot<T> and Item<T> *)

SlotUsed(generation, item) ==
    [used |-> TRUE, generation |-> generation, value |-> item]

SlotEmpty(generation) ==
    [used |-> FALSE, generation |-> generation, value |-> NoValue]

Item(index, generation) ==
    [index |-> index, generation |-> generation]

\* impl PartialEq for Item<T>
ItemEq(a, b) ==
    a.index = b.index /\ a.generation = b.generation

---------------------------------------------------------------------------
(* OrderedSkipList<usize> *)

RECURSIVE SkipInsert(_, _)
SkipInsert(s, x) ==
    IF s = << >> THEN <<x>>
    ELSE IF x <= Head(s) THEN <<x>> \o s
    ELSE <<Head(s)>> \o SkipInsert(Tail(s), x)

IsSorted(s) ==
    \A i \in 1..(Len(s) - 1) : s[i] <= s[i + 1]

---------------------------------------------------------------------------
(* PackedData<T>: queries *)

\* the slot of a 0-based index
SlotAt(d, index) == d[index + 1]

InBounds(d, index) == index >= 0 /\ index < Len(d)

UsedCount(d) == Cardinality({i \in 1..Len(d) : d[i].used})

\* len(): data.len() - holes.len() on usize.  When it would go below zero a
\* debug build panics and a release build wraps to 2^64 - below.
LenUnderflows(d, h) == Len(h) > Len(d)

LenValue(d, h) == Len(d) - Len(h)

\* is_empty(): data.is_empty()
IsEmpty(d) == Len(d) = 0

GetAgeBlind(d, item) ==
    IF ~InBounds(d, item.index) THEN [ok |-> FALSE, value |-> NoValue]
    ELSE LET slot == SlotAt(d, item.index)
         IN  IF slot.used
             THEN [ok |-> TRUE, value |-> slot.value]
             ELSE [ok |-> FALSE, value |-> NoValue]

\* the match of get and get_mut: Some(slot), Used, equal generation
GetResult(d, item) ==
    IF ~InBounds(d, item.index) THEN [ok |-> FALSE, value |-> NoValue]
    ELSE LET slot == SlotAt(d, item.index)
         IN  IF slot.used
             THEN IF slot.generation # item.generation
                  THEN [ok |-> FALSE, value |-> NoValue]
                  ELSE [ok |-> TRUE, value |-> slot.value]
             ELSE [ok |-> FALSE, value |-> NoValue]

WriteThroughFresh(d, item, v) ==
    [d EXCEPT ![item.index + 1] = SlotUsed(Gen1, v)]

\* a write of v through the &mut T that get_mut returned
WriteThrough(d, item, v) ==
    [d EXCEPT ![item.index + 1].value = v]

---------------------------------------------------------------------------
(* PackedData<T>: insert *)

\* Vec::push past the capacity reallocates; how far is the allocator's
\* business (exact fit or doubling), at least the new length.
GrowChoices(c, n) ==
    IF n <= c THEN {c}
    ELSE {n} \cup {IF 2 * c > n THEN 2 * c ELSE n}

PopBack(h) ==
    [some |-> h # << >>,
     index |-> IF h = << >> THEN 0 ELSE h[Len(h)],
     rest |-> IF h = << >> THEN h ELSE SubSeq(h, 1, Len(h) - 1)]

PopNever(h) ==
    [some |-> FALSE, index |-> 0, rest |-> h]

PeekFront(h) ==
    [some |-> h # << >>,
     index |-> IF h = << >> THEN 0 ELSE Head(h),
     rest |-> h]

\* OrderedSkipList::pop_front
PopFront(h) ==
    [some |-> h # << >>,
     index |-> IF h = << >> THEN 0 ELSE Head(h),
     rest |-> IF h = << >> THEN h ELSE Tail(h)]

\* the arm Some(index) of insert
InsertReuse(d, index, v) ==
    LET slot == SlotUsed(SlotAt(d, index).generation, v)
        generation == slot.generation
    IN  [data |-> [d EXCEPT ![index + 1] = slot],
         item |-> Item(index, generation)]

\* the arm None of insert
InsertPush(d, v) ==
    LET index == Len(d)
        generation == Gen1
    IN  [data |-> Append(d, SlotUsed(generation, v)),
         item |-> Item(index, generation)]

---------------------------------------------------------------------------
(* PackedData<T>: remove *)

\* remove: data[item.index] panics out of bounds; in bounds the slot is
\* swapped for Empty(generation + 1) and the index goes to the holes, and only
\* then is the old slot matched against the handle.
RemoveShrinking(d, h, item) ==
    IF ~InBounds(d, item.index)
    THEN [data |-> d, holes |-> h, ok |-> FALSE, value |-> NoValue]
    ELSE LET generation == NextGeneration(SlotAt(d, item.index).generation)
             old == SlotAt(d, item.index)
             ok == old.used /\ old.generation = item.generation
         IN  IF ok /\ item.index = Len(d) - 1
             THEN [data |-> SubSeq(d, 1, Len(d) - 1), holes |-> h,
                   ok |-> TRUE, value |-> old.value]
             ELSE [data |-> [d EXCEPT ![item.index + 1] = SlotEmpty(generation)],
                   holes |-> SkipInsert(h, item.index),
                   ok |-> ok,
                   value |-> IF ok THEN old.value ELSE NoValue]

RemoveNoHole(d, h, item) ==
    IF ~InBounds(d, item.index)
    THEN [data |-> d, holes |-> h, ok |-> FALSE, value |-> NoValue]
    ELSE LET generation == NextGeneration(SlotAt(d, item.index).generation)
             old == SlotAt(d, item.index)
             ok == old.used /\ old.generation = item.generation
         IN  [data |-> [d EXCEPT ![item.index + 1] = SlotEmpty(generation)],
              holes |-> h,
              ok |-> ok,
              value |-> IF ok THEN old.value ELSE NoValue]

RemoveResult(d, h, item) ==
    IF ~InBounds(d, item.index)
    THEN [data |-> d, holes |-> h, ok |-> FALSE, value |-> NoValue]
    ELSE LET generation == NextGeneration(SlotAt(d, item.index).generation)
             old == SlotAt(d, item.index)
             ok == old.used /\ old.generation = item.generation
         IN  [data |-> [d EXCEPT ![item.index + 1] = SlotEmpty(generation)],
              holes |-> SkipInsert(h, item.index),
              ok |-> ok,
              value |-> IF ok THEN old.value ELSE NoValue]

---------------------------------------------------------------------------
(* The state machine *)

NoItem == Item(0, U32Zero)

Call(op, item, ok, value) ==
    [op |-> op, item |-> item, ok |-> ok, value |-> value]

\* A container that has already been through 2^32 - 3 remove/insert rounds
\* on its only slot starts two removes away from the wrap of the generation.
AgedGeneration == U32Pred(U32Max)

\* with_max_capacity
InitNew ==
    /\ data = << >>
    /\ holes = << >>
    /\ cap = 0
    /\ live = {}
    /\ removed = {}
    /\ issuedGen = << >>
    /\ peak = 0

\* insert; remove; (insert; remove) 2^32 - 4 times more, none of them failing
InitAged ==
    /\ data = <<SlotEmpty(AgedGeneration)>>
    /\ holes = <<0>>
    /\ cap = 1
    /\ live = {}
    /\ removed = {[index |-> 0, generation |-> Gen1,
                   frees |-> U32Pred(AgedGeneration)],
                  [index |-> 0, generation |-> U32Pred(AgedGeneration),
                   frees |-> Gen1]}
    /\ issuedGen = <<U32Pred(AgedGeneration)>>
    /\ peak = 1

Init ==
    /\ InitNew \/ InitAged
    /\ last = Call("with_max_capacity", NoItem, TRUE, NoValue)
    /\ prev = Call("none", NoItem, TRUE, NoValue)
    /\ failed = FALSE
    /\ ops = 0

\* handles of another container of the same type: nothing ties an Item to
\* the container that issued it
ForeignItems == {Item(i, Gen1) : i \in 0..MaxLen}

KnownItems ==
    {l.item : l \in live}
        \cup {Item(r.index, r.generation) : r \in removed}
        \cup ForeignItems

Insert(v) ==
    /\ ops < MaxOps
    /\ holes = << >> => Len(data) < MaxLen
    /\ LET p == PopFront(holes)
       IN  IF p.some
           THEN IF InBounds(data, p.index)
                THEN LET r == InsertReuse(data, p.index, v)
                     IN  /\ data' = r.data
                         /\ holes' = p.rest
                         /\ cap' = cap
                         /\ last' = Call("insert", r.item, TRUE, v)
                         /\ live' = live \cup {[item |-> r.item, value |-> v]}
                         /\ issuedGen' = [issuedGen EXCEPT ![p.index + 1] = r.item.generation]
                         /\ failed' = failed
                ELSE /\ holes' = p.rest
                     /\ last' = Call("insert", NoItem, FALSE, NoValue)
                     /\ failed' = TRUE
                     /\ UNCHANGED <<data, cap, live, issuedGen>>
           ELSE LET r == InsertPush(data, v)
                IN  /\ data' = r.data
                    /\ holes' = holes
                    /\ cap' \in GrowChoices(cap, Len(data) + 1)
                    /\ last' = Call("insert", r.item, TRUE, v)
                    /\ live' = live \cup {[item |-> r.item, value |-> v]}
                    /\ issuedGen' = Append(issuedGen, r.item.generation)
                    /\ failed' = failed
    /\ peak' = IF ~LenUnderflows(data', holes') /\ LenValue(data', holes') > peak
               THEN LenValue(data', holes') ELSE peak
    /\ removed' = removed
    /\ prev' = last
    /\ ops' = ops + 1

Remove(item) ==
    /\ ops < MaxOps
    /\ LET r == RemoveResult(data, holes, item)
           \* every remove that reaches the slot advances its generation
           freed == {[x EXCEPT !.frees =
                         IF x.index = item.index /\ InBounds(data, item.index)
                         THEN SatSucc(x.frees) ELSE x.frees]
                     : x \in removed}
       IN  /\ data' = r.data
           /\ holes' = r.holes
           /\ last' = Call("remove", item, r.ok, r.value)
           /\ failed' = (failed \/ ~r.ok)
           /\ live' = IF r.ok THEN {l \in live : l.item # item} ELSE live
           /\ removed' = IF r.ok
                         THEN freed \cup {[index |-> item.index,
                                           generation |-> item.generation,
                                           frees |-> Gen1]}
                         ELSE freed
    /\ prev' = last
    /\ UNCHANGED <<cap, issuedGen, peak>>
    /\ ops' = ops + 1

Get(item) ==
    /\ ops < MaxOps
    /\ LET r == GetResult(data, item)
       IN  /\ last' = Call("get", item, r.ok, r.value)
           /\ failed' = (failed \/ ~r.ok)
    /\ UNCHANGED <<data, holes, cap, live, removed, issuedGen, peak>>
    /\ prev' = last
    /\ ops' = ops + 1

\* get_mut, and the caller's write of v through the reference it returns
GetMut(item, v) ==
    /\ ops < MaxOps
    /\ LET r == GetResult(data, item)
       IN  /\ last' = Call("get_mut", item, r.ok, r.value)
           /\ failed' = (failed \/ ~r.ok)
           /\ IF r.ok
              THEN /\ data' = WriteThrough(data, item, v)
                   /\ live' = {IF l.item = item THEN [l EXCEPT !.value = v] ELSE l
                               : l \in live}
              ELSE UNCHANGED <<data, live>>
    /\ UNCHANGED <<holes, cap, removed, issuedGen, peak>>
    /\ prev' = last
    /\ ops' = ops + 1

Next ==
    \/ \E v \in Values : Insert(v)
    \/ \E item \in KnownItems : Remove(item)
    \/ \E item \in KnownItems : Get(item)
    \/ \E item \in KnownItems, v \in Values : GetMut(item, v)

Spec == Init /\ [][Next]_vars

\* the skip list keeps its elements in ascending order
HolesAscending == IsSorted(holes)

---------------------------------------------------------------------------
(* Helpers of the properties *)

HoleSet(h) == {h[k] : k \in 1..Len(h)}

RemovedItem(r) == Item(r.index, r.generation)

\* get, get_mut and remove all refuse the handle in the current state
Refused(item) ==
    /\ ~GetResult(data, item).ok
    /\ ~RemoveResult(data, holes, item).ok

\* the three conditions of a valid handle
HandleValid(d, item) ==
    /\ item.index < Len(d)
    /\ d[item.index + 1].used
    /\ d[item.index + 1].generation = item.generation

IsCall(c, names) == c.op \in names

---------------------------------------------------------------------------
(* C1: stale handle detection *)

\* C1 as stated: once remove(h) has succeeded, get(h), get_mut(h) and
\* remove(h) fail ever after, whatever inserts and removes come between.
\* It is put to the runs in which no call has panicked, so that what refutes
\* it is a run of successful calls only.
C1_StaleForever ==
    ~failed => \A r \in removed : Refused(RemovedItem(r))

\* C1 amended: once remove(h) has succeeded, get(h), get_mut(h) and remove(h)
\* fail for as long as the generation of the slot at h.index has been advanced
\* fewer than 2^32 - 1 times since h was issued (h's own removal counted).
C1_StaleUntilWrap ==
    \A r \in removed :
        U32Less(r.frees, U32Max) => Refused(RemovedItem(r))

\* a get of a removed handle was refused although its index is occupied again
C1_Witness ==
    /\ last.op = "get"
    /\ ~last.ok
    /\ \E r \in removed :
        /\ RemovedItem(r) = last.item
        /\ U32Less(r.frees, U32Max)
        /\ SlotAt(data, r.index).used

---------------------------------------------------------------------------
(* C2: a handle is valid exactly on an (index, generation) match *)

\* C2: get(item), get_mut(item) and remove(item) succeed if and only if
\* item.index < data.len(), the slot there is Used and its generation equals
\* item.generation, in the state they are called in.
C2_ValidIffMatch ==
    [][IsCall(last', {"get", "get_mut", "remove"})
          => (last'.ok <=> HandleValid(data, last'.item))]_vars

\* a get of a handle succeeded and the remove that followed, of a handle of
\* the same index and another generation, was refused
C2_Witness ==
    /\ last.op = "remove"
    /\ ~last.ok
    /\ InBounds(data, last.item.index)
    /\ prev.op = "get"
    /\ prev.ok
    /\ prev.item.index = last.item.index
    /\ prev.item.generation # last.item.generation

---------------------------------------------------------------------------
(* C3: round trip and handle stability *)

\* get(h) and remove(h) both give the value v
Yields(item, v) ==
    /\ GetResult(data, item) = [ok |-> TRUE, value |-> v]
    /\ RemoveResult(data, holes, item).ok
    /\ RemoveResult(data, holes, item).value = v

\* C3: for a handle h returned by insert(v) and not yet removed, get(h)
\* returns the value associated with h (v, or the value last written through
\* get_mut(h)) and remove(h) returns the same; no insert and no remove of
\* another handle changes the value, the index or the validity of h.
C3_LiveHandlesStable ==
    \A l \in live : Yields(l.item, l.value)

\* the same, in the runs in which no call has panicked
C3_StableWithoutPanic ==
    ~failed => C3_LiveHandlesStable

---------------------------------------------------------------------------
(* C4: density *)

\* C4: len() equals the number of Used slots, which is data.len() -
\* holes.len(), and len() <= data.len() <= capacity(); the subtraction of
\* len() does not underflow.
C4_Density ==
    /\ ~LenUnderflows(data, holes)
    /\ LenValue(data, holes) = UsedCount(data)
    /\ LenValue(data, holes) <= Len(data)
    /\ Len(data) <= cap

\* the same, in the runs in which no call has panicked
C4_DensityWithoutPanic ==
    ~failed => C4_Density

---------------------------------------------------------------------------
(* C5: the holes are the Empty slots *)

\* C5: when no call has failed, the hole set holds exactly the indices of the
\* Empty slots of data, each once: no duplicate, no index of a Used slot, no
\* index >= data.len().
C5_HolesAreEmptySlots ==
    ~failed =>
        /\ \A k \in 1..Len(holes) :
            /\ InBounds(data, holes[k])
            /\ ~SlotAt(data, holes[k]).used
        /\ \A j, k \in 1..Len(holes) : j # k => holes[j] # holes[k]
        /\ \A i \in 0..(Len(data) - 1) :
            ~SlotAt(data, i).used => i \in HoleSet(holes)

\* a hole beside a Used slot, after a hole was reused and another made, by
\* successful calls only
C5_Witness ==
    /\ ~failed
    /\ Len(holes) >= 1
    /\ \E i \in 0..(Len(data) - 1) : SlotAt(data, i).used
    /\ last.op = "remove"
    /\ prev.op = "insert"
    /\ prev.item.generation # Gen1

---------------------------------------------------------------------------
(* C6: the lowest free index is reused first *)

HoleMin(h) == CHOOSE m \in HoleSet(h) : \A k \in HoleSet(h) : m <= k

\* what C6 says of one insert, from the state before it to the state after
InsertAsDescribed ==
    IF holes # << >>
    THEN LET i == HoleMin(holes)
         IN  /\ InBounds(data, i)
             /\ ~SlotAt(data, i).used
             /\ last'.ok
             /\ last'.item = Item(i, SlotAt(data, i).generation)
             /\ data' = [data EXCEPT ![i + 1] =
                            SlotUsed(SlotAt(data, i).generation, last'.value)]
             /\ i \notin HoleSet(holes')
             /\ Len(holes') = Len(holes) - 1
             /\ Len(data') = Len(data)
    ELSE /\ last'.ok
         /\ last'.item = Item(Len(data), Gen1)
         /\ data' = Append(data, SlotUsed(Gen1, last'.value))
         /\ holes' = holes

\* two inserts in a row that both take a hole: the second index is the higher
AscendingReuse ==
    (last.op = "insert" /\ holes # << >>)
        => last'.item.index > last.item.index

\* C6: with a hole, insert stores the value at the minimum index i of the hole
\* set, removes i from the hole set, leaves data.len() alone and returns
\* Item{i, g}, g the generation the Empty slot held; without a hole it appends
\* at data.len() with generation 1; consecutive inserts into holes return
\* strictly ascending indices.
C6_LowestFreeFirst ==
    [][last'.op = "insert" => (InsertAsDescribed /\ AscendingReuse)]_vars

\* the same, in the runs in which no call has panicked
C6_LowestFreeFirstWithoutPanic ==
    [][(~failed /\ last'.op = "insert")
          => (InsertAsDescribed /\ AscendingReuse)]_vars

---------------------------------------------------------------------------
(* C7: reuse after removing the lowest occupied index *)

\* the last call removed the handle of the lowest occupied index
RemovedLowest ==
    /\ last.op = "remove"
    /\ last.ok
    /\ \A j \in 0..(last.item.index - 1) : ~SlotAt(data, j).used

\* C7 as stated: after removing the handle at the lowest occupied index, the
\* next insert returns a handle with exactly that index.
C7_ReusesRemovedLowest ==
    [][(RemovedLowest /\ last'.op = "insert")
          => last'.item.index = last.item.index]_vars

\* C7 amended: after removing the handle at the lowest occupied index i, the
\* next insert returns the lowest index of the hole set; that is i when the
\* hole set holds no index below i, and an index below i otherwise.
C7_ReusesLowestHole ==
    [][(RemovedLowest /\ last'.op = "insert")
          => /\ last'.ok
             /\ last'.item.index = HoleMin(holes)
             /\ IF \A k \in HoleSet(holes) : k >= last.item.index
                THEN last'.item.index = last.item.index
                ELSE last'.item.index < last.item.index]_vars

\* the lowest occupied index, with a Used slot above it, was removed and the
\* insert that followed returned it
C7_Witness ==
    /\ last.op = "insert"
    /\ prev.op = "remove"
    /\ prev.ok
    /\ last.item.index = prev.item.index
    /\ \A j \in 0..(prev.item.index - 1) : ~SlotAt(data, j).used
    /\ \E j \in (prev.item.index + 1)..(Len(data) - 1) : SlotAt(data, j).used

---------------------------------------------------------------------------
(* C8: generations of the handles of one index *)

\* g follows p: strictly greater, or 1 after the maximum
Follows(p, g) ==
    IF p = U32Max THEN g = Gen1 ELSE U32Less(p, g)

\* the handle an insert returns, against the one last issued for its index
IssuedInOrder ==
    LET i == last'.item.index
    IN  IF i < Len(issuedGen)
        THEN Follows(issuedGen[i + 1], last'.item.generation)
        ELSE last'.item.generation = Gen1

\* a successful remove raises the generation of its slot by exactly one
RaisedByOne ==
    LET i == last'.item.index
        g == SlotAt(data, i).generation
    IN  SlotAt(data', i).generation = (IF g = U32Max THEN Gen1 ELSE U32Succ(g))

\* C8: the first handle issued for an index has generation 1, each successful
\* remove raises the generation of the slot by exactly 1, and each handle
\* issued for an index has a strictly greater generation than the one issued
\* for it before, except after the maximum, where it is 1.
C8_GenerationsIncrease ==
    [][/\ (last'.op = "insert" /\ last'.ok) => IssuedInOrder
       /\ (last'.op = "remove" /\ last'.ok) => RaisedByOne]_vars

\* the same, in the runs in which no call has panicked
C8_GenerationsIncreaseWithoutPanic ==
    [][~failed' => /\ (last'.op = "insert" /\ last'.ok) => IssuedInOrder
                   /\ (last'.op = "remove" /\ last'.ok) => RaisedByOne]_vars

---------------------------------------------------------------------------
(* C9: length accounting *)

---------------------------------------------------------------------------
(* C10: the storage never shrinks *)

\* C10: remove leaves data.len() and capacity() unchanged, and over any
\* sequence of calls data.len() and capacity() do not decrease.
C10_NeverShrinks ==
    [][/\ Len(data') >= Len(data)
       /\ cap' >= cap
       /\ last'.op = "remove" => (Len(data') = Len(data) /\ cap' = cap)]_vars

\* the handle of the last slot was removed and the slot is still there
C10_Witness ==
    /\ last.op = "remove"
    /\ last.ok
    /\ last.item.index = Len(data) - 1
    /\ Len(data) >= 2
    /\ cap >= Len(data)

---------------------------------------------------------------------------
(* C11: a failing remove *)

\* C11: when remove(item) fails because the slot at item.index is Empty or
\* its generation differs from item.generation, every slot (state, generation,
\* value) and the hole set are as they were before the call.
C11_FailedRemoveChangesNothing ==
    [][(last'.op = "remove" /\ ~last'.ok /\ InBounds(data, last'.item.index))
          => (data' = data /\ holes' = holes)]_vars

\* what does hold: a remove whose index is out of bounds changes nothing
C11_OutOfBoundsRemoveChangesNothing ==
    [][(last'.op = "remove" /\ ~InBounds(data, last'.item.index))
          => (~last'.ok /\ data' = data /\ holes' = holes)]_vars

---------------------------------------------------------------------------
(* C12: is_empty() and len() *)

\* C12: is_empty() returns true if and only if len() = 0, in particular after
\* every inserted item has been removed again.  It is put to the states that
\* follow a successful remove in runs in which no call has panicked.
C12_IsEmptyIffLenZero ==
    (~failed /\ last.op = "remove" /\ last.ok)
        => (IsEmpty(data) <=> (~LenUnderflows(data, holes)
                               /\ LenValue(data, holes) = 0))

---------------------------------------------------------------------------
(* C13: the footprint is the peak live count *)

\* C13: after inserts and removes none of which failed, data.len() equals the
\* greatest value len() has had so far; a slot is appended only when there is
\* no Empty slot.
C13_FootprintIsPeak ==
    [][/\ ~failed => Len(data) = peak
       /\ ~failed' => Len(data') = peak'
       /\ Len(data') > Len(data) =>
            \A i \in 0..(Len(data) - 1) : SlotAt(data, i).used]_vars

\* after churn: two slots, fewer live items than slots, the last insert took
\* a hole and the footprint stayed at the peak
C13_Witness ==
    /\ ~failed
    /\ last.op = "insert"
    /\ last.item.generation # Gen1
    /\ prev.op = "remove"
    /\ Len(data) = 2
    /\ peak = 2
    /\ LenValue(data, holes) < peak

---------------------------------------------------------------------------
(* C14: a generation is never zero *)

IsNonZeroU32(g) ==
    /\ g[1] \in 0..LimbMax
    /\ g[2] \in 0..LimbMax
    /\ g # U32Zero

\* C14: every generation stored in a slot or carried by an issued handle lies
\* in 1..2^32 - 1, and a successful remove of a slot whose generation is the
\* maximum leaves the slot Empty with generation 1.
C14_GenerationNonZero ==
    /\ \A i \in 0..(Len(data) - 1) : IsNonZeroU32(SlotAt(data, i).generation)
    /\ \A l \in live : IsNonZeroU32(l.item.generation)
    /\ (last.op = "insert" /\ last.ok) => IsNonZeroU32(last.item.generation)
    /\ (last.op = "remove" /\ last.ok /\ last.item.generation = U32Max)
          => SlotAt(data, last.item.index) = SlotEmpty(Gen1)

\* a handle of the maximum generation was removed
C14_Witness ==
    /\ last.op = "remove"
    /\ last.ok
    /\ last.item.generation = U32Max
    /\ SlotAt(data, last.item.index).generation = Gen1

---------------------------------------------------------------------------
(* C15: reads do not restructure *)

SameShape(d, e) ==
    /\ Len(e) = Len(d)
    /\ \A i \in 0..(Len(d) - 1) :
        /\ SlotAt(e, i).used = SlotAt(d, i).used
        /\ SlotAt(e, i).generation = SlotAt(d, i).generation

\* C15: get(item) leaves data and the hole set unchanged, get_mut(item) can
\* change only the value of the slot at item.index; neither changes a slot's
\* Empty/Used state or generation, the hole set, len(), data.len() or the
\* validity of any handle.
C15_ReadsKeepStructure ==
    [][/\ last'.op = "get" => (data' = data /\ holes' = holes /\ cap' = cap)
       /\ last'.op = "get_mut" =>
            /\ holes' = holes
            /\ cap' = cap
            /\ SameShape(data, data')
            /\ \A i \in 0..(Len(data) - 1) :
                i # last'.item.index => SlotAt(data', i) = SlotAt(data, i)
            /\ LenValue(data', holes') = LenValue(data, holes)
            /\ \A h \in KnownItems : HandleValid(data', h) <=> HandleValid(data, h)]_vars

\* a get_mut wrote a new value into a slot of a reused index, beside a hole
C15_Witness ==
    /\ last.op = "get_mut"
    /\ last.ok
    /\ SlotAt(data, last.item.index).value # last.value
    /\ last.item.generation # Gen1
    /\ holes # << >>

---------------------------------------------------------------------------
(* C16: live handles do not alias *)

\* C16: two handles returned by different insert calls, neither of them
\* removed, have different indices and so compare unequal; a handle compares
\* equal to a copy of itself.
C16_LiveHandlesDistinct ==
    [][(last'.op = "insert" /\ last'.ok) =>
          /\ \A l \in live :
                /\ l.item.index # last'.item.index
                /\ ~ItemEq(l.item, last'.item)
          /\ ItemEq(last'.item, last'.item)]_vars

\* the same, in the runs in which no call has panicked
C16_DistinctWithoutPanic ==
    [][(~failed /\ last'.op = "insert" /\ last'.ok) =>
          /\ \A l \in live :
                /\ l.item.index # last'.item.index
                /\ ~ItemEq(l.item, last'.item)
          /\ ItemEq(last'.item, last'.item)]_vars

====
